---- MODULE Spec2Model ----
(***************************************************************************)
(* A model of the screening-interview backend: the HTTP handlers of        *)
(* backend/main.py over the in-process session registry, and the LangGraph *)
(* workflow of backend/interview_graph.py that every handler pass runs.    *)
(*                                                                         *)
(* Text is a sequence of one-character strings, so that strip, lstrip,     *)
(* startswith, split and len are computed as Python computes them.  An     *)
(* Optional value is a sequence of length 0 (None) or 1.  Times are whole  *)
(* seconds.  Message timestamps are not modelled: nothing reads them.      *)
(***************************************************************************)
EXTENDS Integers, Sequences, FiniteSets, TLC

VARIABLES
  sessions,   \* main.py `sessions`: session id -> SessionData
  now,        \* the wall clock, in seconds
  resp,       \* what the last handler call returned (NoResponse after a tick)
  faults,     \* number of model calls so far that failed or came back blank
  st,         \* an InterviewState the workflow nodes are applied to one by one
  nodeIn,     \* the InterviewState the last node application received
  lastNode,   \* the node applied last to st
  tasks,      \* the handler coroutines of the event loop, each at its position
  draft,      \* a strategy text being written, as the sequence of its lines
  extracted,  \* what the topic extractor made of the draft (None: not run)
  context,    \* the conversation context of the last prompt built (None: none)
  reply       \* the model's verdict on the answer in the last node (None: none)

vars ==
  <<sessions, now, resp, faults, st, nodeIn, lastNode, tasks, draft, extracted,
    context, reply>>

---------------------------------------------------------------------------
(* Program constants *)

MAX_INTERVIEW_TIME_SECONDS == 30 * 60

MAX_QUESTIONS == 16

MAX_FOLLOWUPS == 2

MAX_TOPICS == 5

MIN_TOPIC_LEN == 10

---------------------------------------------------------------------------
(* Bounds of the model *)

\* The clock stops advancing here.
MaxClock == 2700

\* Model calls that may fail or return blank text, over a whole behaviour,
\* and the length of transcript up to which they may.
MaxFaults == 1

MaxFaultTurns == 3

\* In the node-by-node specification: questions generated at most.
MaxNodeQuestions == 5

\* In the event-loop specification: handler coroutines alive at once, and
\* the transcript length up to which answers are accepted.
MaxTasks == 2

MaxLoopTurns == 4

\* In the two-session specification: the transcript length of a session at
\* most.
MaxPairTurns == 3

\* In the extractor specification: the lines of a strategy text at most.
MaxDraftLines == 6

\* In the context-builder specification: the turns of a message list at most.
MaxHistory == 4

SessionIds == {"s1"}

\* The session ids of the two-session specification.
PairIds == {"s1", "s2"}

\* How far one tick of the clock, or the model calls of one pass, advance it.
TickDeltas == {900}

PassDelays == {0, 900, 1800}

---------------------------------------------------------------------------
(* Text *)

NL == "\n"

Whitespace == {" ", NL, "\t"}

Digits == {"0", "1", "2", "3", "4", "5", "6", "7", "8", "9"}

None == <<>>

Some(v) == <<v>>

\* The Python None where a topic label or a text is expected.
NoneText == <<"None">>

EmptyText == <<>>

RECURSIVE lstrip(_, _)
\* str.lstrip(chars)
lstrip(s, chars) ==
  IF s # <<>> /\ Head(s) \in chars THEN lstrip(Tail(s), chars) ELSE s

RECURSIVE rstrip(_, _)
\* str.rstrip(chars)
rstrip(s, chars) ==
  IF s # <<>> /\ s[Len(s)] \in chars
  THEN rstrip(SubSeq(s, 1, Len(s) - 1), chars)
  ELSE s

\* str.strip()
strip(s) == rstrip(lstrip(s, Whitespace), Whitespace)

\* str.startswith(prefix)
startswith(s, prefix) ==
  Len(s) >= Len(prefix) /\ SubSeq(s, 1, Len(prefix)) = prefix

RECURSIVE split_lines(_)
\* str.split('\n')
split_lines(s) ==
  IF \A i \in 1..Len(s) : s[i] # NL
  THEN <<s>>
  ELSE LET k == CHOOSE i \in 1..Len(s) :
                  s[i] = NL /\ \A j \in 1..(i - 1) : s[j] # NL
       IN  <<SubSeq(s, 1, k - 1)>> \o split_lines(SubSeq(s, k + 1, Len(s)))

RECURSIVE join_lines(_)
\* '\n'.join(lines)
join_lines(text_lines) ==
  IF text_lines = <<>> THEN EmptyText
  ELSE IF Len(text_lines) = 1 THEN Head(text_lines)
  ELSE Head(text_lines) \o <<NL>> \o join_lines(Tail(text_lines))

LowerOf(c) ==
  CASE c = "Y" -> "y" [] c = "E" -> "e" [] c = "S" -> "s"
    [] c = "N" -> "n" [] c = "O" -> "o" [] OTHER -> c

\* str.lower()
lower(s) == [i \in 1..Len(s) |-> LowerOf(s[i])]

\* `needle in s`
contains(s, needle) ==
  \E i \in 1..(Len(s) - Len(needle) + 1) :
    SubSeq(s, i, i + Len(needle) - 1) = needle

TopicTechnical ==
  <<"T", "e", "c", "h", "n", "i", "c", "a", "l", " ", "s", "k", "i", "l",
    "l", "s">>
TopicExperience ==
  <<"E", "x", "p", "e", "r", "i", "e", "n", "c", "e", " ", "a", "n", "d",
    " ", "b", "a", "c", "k", "g", "r", "o", "u", "n", "d">>
TopicProblemSolving ==
  <<"P", "r", "o", "b", "l", "e", "m", "-", "s", "o", "l", "v", "i", "n",
    "g", " ", "a", "p", "p", "r", "o", "a", "c", "h">>
TopicIntroduction ==
  <<"i", "n", "t", "r", "o", "d", "u", "c", "t", "i", "o", "n">>
TopicGeneralBackground ==
  <<"g", "e", "n", "e", "r", "a", "l", " ", "b", "a", "c", "k", "g", "r",
    "o", "u", "n", "d">>
StrategyProse ==
  <<"G", "o", "o", "d", " ", "f", "i", "t", ".", NL, "P", "r", "o", "b", "e",
    " ", "d", "e", "p", "t", "h", ".">>
StrategyOneTopic ==
  <<"F", "o", "c", "u", "s", ":", NL, " ", "1", ".", " ", "S", "y", "s", "t",
    "e", "m", " ", "d", "e", "s", "i", "g", "n", NL, "-", " ", "G", "o", NL>>
StrategySixTopics ==
  <<"1", ".", " ", "P", "y", "t", "h", "o", "n", " ", "s", "e", "r", "v",
    "i", "c", "e", "s", NL, "2", ".", " ", "C", "l", "o", "u", "d", " ", "p",
    "l", "a", "t", "f", "o", "r", "m", "s", NL, "3", ".", " ", "D", "a", "t",
    "a", " ", "p", "i", "p", "e", "l", "i", "n", "e", "s", NL, "4", ".", " ",
    "C", "o", "d", "e", " ", "r", "e", "v", "i", "e", "w", "i", "n", "g", NL,
    "5", ".", " ", "T", "e", "a", "m", " ", "m", "e", "n", "t", "o", "r",
    "i", "n", "g", NL, "*", " ", "I", "n", "c", "i", "d", "e", "n", "t", " ",
    "r", "e", "s", "p", "o", "n", "s", "e">>
QuestionText ==
  <<" ", "W", "h", "y", "?", " ">>
BlankText ==
  <<" ">>
AnswerText ==
  <<"O", "k">>

\* Lines a strategy text may be made of.
LineNumbered ==
  <<"1", ".", " ", "S", "y", "s", "t", "e", "m", " ", "d", "e", "s", "i", "g",
    "n">>
LineBulleted ==
  <<" ", "-", " ", "D", "a", "t", "a", " ", "p", "i", "p", "e", "l", "i", "n",
    "e", "s", " ">>
LineShortBullet ==
  <<"*", " ", "G", "o">>
LineProse ==
  <<"P", "r", "o", "b", "e", " ", "d", "e", "p", "t", "h", ".">>
LineProseDigit ==
  <<"3", " ", "y", "e", "a", "r", "s", " ", "-", " ", "G", "o", ".">>
LineSixth ==
  <<"6", ".", " ", "C", "o", "d", "e", " ", "r", "e", "v", "i", "e", "w", "i",
    "n", "g">>

DraftLines ==
  {LineNumbered, LineBulleted, LineShortBullet, LineProse, LineProseDigit,
   LineSixth}

YesText == <<"Y", "e", "s", ".">>

NoText == <<"N", "o">>

DefaultTopics == <<TopicTechnical, TopicExperience, TopicProblemSolving>>

BulletPrefixes ==
  {<<"1", ".">>, <<"2", ".">>, <<"3", ".">>, <<"4", ".">>, <<"5", ".">>,
   <<"-">>, <<"*">>}

TopicMarkers == Digits \cup {".", "-", "*", " "}

\* What the model may answer to each kind of call.
StrategyTexts == {StrategyProse, StrategyOneTopic}

QuestionTexts == {QuestionText, BlankText}

VerdictTexts == {YesText, NoText}

AnswerTexts == {AnswerText}

---------------------------------------------------------------------------
(* Topic extractor *)

RECURSIVE extract_from_uncapped(_, _)
\* extract_from without the cap on the number of topics.
extract_from_uncapped(lines, topics) ==
  IF lines = <<>> THEN topics
  ELSE LET line  == strip(Head(lines))
           topic == strip(lstrip(line, TopicMarkers))
       IN  IF /\ \E prefix \in BulletPrefixes : startswith(line, prefix)
              /\ Len(topic) > MIN_TOPIC_LEN
           THEN extract_from_uncapped(Tail(lines), Append(topics, topic))
           ELSE extract_from_uncapped(Tail(lines), topics)

RECURSIVE extract_from_any_line(_, _)
\* extract_from without the test of how a line starts.
extract_from_any_line(lines, topics) ==
  IF lines = <<>> THEN topics
  ELSE LET line  == strip(Head(lines))
           topic == strip(lstrip(line, TopicMarkers))
       IN  IF /\ Len(topic) > MIN_TOPIC_LEN
              /\ Len(topics) < MAX_TOPICS
           THEN extract_from_any_line(Tail(lines), Append(topics, topic))
           ELSE extract_from_any_line(Tail(lines), topics)

RECURSIVE extract_from(_, _)
\* The loop of _extract_topics over the remaining lines.
extract_from(lines, topics) ==
  IF lines = <<>> THEN topics
  ELSE LET line  == strip(Head(lines))
           topic == strip(lstrip(line, TopicMarkers))
       IN  IF /\ \E prefix \in BulletPrefixes : startswith(line, prefix)
              /\ Len(topic) > MIN_TOPIC_LEN
              /\ Len(topics) < MAX_TOPICS
           THEN extract_from(Tail(lines), Append(topics, topic))
           ELSE extract_from(Tail(lines), topics)

\* extract_topics without its fallback to the default topics.
extract_topics_no_fallback(strategy) ==
  extract_from(split_lines(strategy), <<>>)

extract_topics(strategy) ==
  LET topics == extract_from(split_lines(strategy), <<>>)
  IN  IF topics = <<>> THEN DefaultTopics ELSE topics

---------------------------------------------------------------------------
(* The workflow's nodes (interview_graph.py).  A node reads an             *)
(* InterviewState and returns the state with the node's partial update     *)
(* merged in: `messages` is appended to, every other key is overwritten.   *)

\* dict.get(key, default)
Get(d, key, default) == IF key \in DOMAIN d THEN d[key] ELSE default

\* d[key] = value
Put(d, key, value) ==
  [k \in DOMAIN d \cup {key} |-> IF k = key THEN value ELSE d[k]]

EmptyDict == [k \in {} |-> 0]

\* A message of the workflow: a turn without a topic label reads back as "".
Msg(role, content, topic) == [role |-> role, content |-> content, topic |-> topic]

\* The placeholders of the two context builders.
FirstQuestionText == <<"This is the first question.">>

FirstOnTopicText == <<"First question on this topic">>

\* isinstance(msg, dict): a message as a handler or a node wrote it, against
\* a LangChain message object (which carries the name of its type).
IsDict(msg) == "type" \notin DOMAIN msg

\* The role _build_conversation_context gives a message.
role_of(msg) ==
  IF IsDict(msg) THEN Get(msg, "role", "unknown")
  ELSE CASE msg.type = "HumanMessage"  -> "user"
         [] msg.type = "AIMessage"     -> "assistant"
         [] msg.type = "SystemMessage" -> "system"
         [] OTHER                      -> "unknown"

\* The line a turn is displayed as, if it is displayed.
display_line(role, content) ==
  IF role = "assistant" THEN <<(<<"Interviewer: ">> \o content)>>
  ELSE IF role = "user" THEN <<(<<"Candidate: ">> \o content)>>
  ELSE <<>>

RECURSIVE context_lines(_)
\* The loop of _build_conversation_context.
context_lines(messages) ==
  IF messages = <<>> THEN <<>>
  ELSE display_line(role_of(Head(messages)),
                    Get(Head(messages), "content", EmptyText))
       \o context_lines(Tail(messages))

\* build_conversation_context returning the joined lines even when there
\* are none.
build_conversation_context_joining(messages) ==
  join_lines(context_lines(messages))

build_conversation_context(messages) ==
  IF messages = <<>> THEN FirstQuestionText
  ELSE LET lines == context_lines(messages)
       IN  IF lines # <<>> THEN join_lines(lines) ELSE FirstQuestionText

\* The role the follow-up branch gives a message ("" for an object it skips).
scoped_role(msg) ==
  IF IsDict(msg) THEN Get(msg, "role", "")
  ELSE CASE msg.type = "HumanMessage" -> "user"
         [] msg.type = "AIMessage"    -> "assistant"
         [] OTHER                     -> ""

\* msg.get("topic", "") of a dict, getattr(msg, 'topic', '') of an object.
msg_topic_of(msg) == Get(msg, "topic", EmptyText)

RECURSIVE topic_conversation(_, _)
\* The loop of the follow-up branch over the messages.
topic_conversation(messages, current_topic) ==
  IF messages = <<>> THEN <<>>
  ELSE LET msg  == Head(messages)
           role == scoped_role(msg)
       IN  ( IF msg_topic_of(msg) = current_topic
                /\ role \in {"assistant", "user"}
             THEN display_line(role, Get(msg, "content", EmptyText))
             ELSE <<>> )
           \o topic_conversation(Tail(messages), current_topic)

\* topic_context of the follow-up branch.
topic_context(messages, current_topic) ==
  LET lines == topic_conversation(messages, current_topic)
  IN  IF lines # <<>> THEN join_lines(lines) ELSE FirstOnTopicText

analyze_documents(state, strategy) ==
  [state EXCEPT
     !.interview_strategy = strategy,
     !.key_topics = extract_topics(strategy),
     !.messages = Append(@, Msg("system", strategy, EmptyText))]

\* followup_question keeping the count of the current topic alone.
followup_question_forgetting_counts(state, response) ==
  LET current_topic  == state.current_topic
      followup_count == Get(state.topic_followup_counts, current_topic, 0)
      question       == strip(response)
  IN  [state EXCEPT
         !.current_question = question,
         !.current_topic = current_topic,
         !.questions_asked = state.questions_asked + 1,
         !.needs_followup = FALSE,
         !.topic_followup_counts = Put(EmptyDict, current_topic, followup_count + 1),
         !.messages = Append(@, Msg("assistant", question, current_topic))]

\* The branch of _generate_question that asks a follow-up.
followup_question(state, response) ==
  LET current_topic  == state.current_topic
      followup_count == Get(state.topic_followup_counts, current_topic, 0)
      question       == strip(response)
  IN  [state EXCEPT
         !.current_question = question,
         !.current_topic = current_topic,
         !.questions_asked = state.questions_asked + 1,
         !.needs_followup = FALSE,
         !.topic_followup_counts = Put(@, current_topic, followup_count + 1),
         !.messages = Append(@, Msg("assistant", question, current_topic))]

\* The branch that asks the introductory question.
intro_question(state, response) ==
  LET question == strip(response)
  IN  [state EXCEPT
         !.current_question = question,
         !.current_topic = TopicIntroduction,
         !.questions_asked = 1,
         !.messages = Append(@, Msg("assistant", question, TopicIntroduction))]

\* topic_question with the counter stepped the wrong way.
topic_question_decrements(state, response) ==
  LET topics        == state.key_topics
      current_topic == IF topics # <<>>
                       THEN topics[((state.questions_asked - 1) % Len(topics)) + 1]
                       ELSE TopicGeneralBackground
      question      == strip(response)
  IN  [state EXCEPT
         !.current_question = question,
         !.current_topic = current_topic,
         !.questions_asked = state.questions_asked - 1,
         !.messages = Append(@, Msg("assistant", question, current_topic))]

\* topic_question leaving the question it asks uncounted.
topic_question_uncounted(state, response) ==
  LET topics        == state.key_topics
      current_topic == IF topics # <<>>
                       THEN topics[((state.questions_asked - 1) % Len(topics)) + 1]
                       ELSE TopicGeneralBackground
      question      == strip(response)
  IN  [state EXCEPT
         !.current_question = question,
         !.current_topic = current_topic,
         !.messages = Append(@, Msg("assistant", question, current_topic))]

\* topic_question with the rotation indexed by questions_asked itself.
topic_question_from_count(state, response) ==
  LET topics        == state.key_topics
      current_topic == IF topics # <<>>
                       THEN topics[(state.questions_asked % Len(topics)) + 1]
                       ELSE TopicGeneralBackground
      question      == strip(response)
  IN  [state EXCEPT
         !.current_question = question,
         !.current_topic = current_topic,
         !.questions_asked = state.questions_asked + 1,
         !.messages = Append(@, Msg("assistant", question, current_topic))]

\* The branch that asks a question on the next topic of the rotation.
topic_question(state, response) ==
  LET topics            == state.key_topics
      questions_asked   == state.questions_asked
      current_topic_idx == IF topics # <<>>
                           THEN (questions_asked - 1) % Len(topics)
                           ELSE 0
      current_topic     == IF topics # <<>>
                           THEN topics[current_topic_idx + 1]
                           ELSE TopicGeneralBackground
      question          == strip(response)
  IN  [state EXCEPT
         !.current_question = question,
         !.current_topic = current_topic,
         !.questions_asked = questions_asked + 1,
         !.messages = Append(@, Msg("assistant", question, current_topic))]

\* wants_followup with the budget test off by one (> for >=).
wants_followup_off_by_one(state) ==
  /\ state.needs_followup
  /\ ~(Get(state.topic_followup_counts, state.current_topic, 0) > MAX_FOLLOWUPS)

\* Whether _generate_question takes the follow-up branch.
wants_followup(state) ==
  /\ state.needs_followup
  /\ ~(Get(state.topic_followup_counts, state.current_topic, 0) >= MAX_FOLLOWUPS)

generate_question(state, response) ==
  IF wants_followup(state) THEN followup_question(state, response)
  ELSE IF state.questions_asked = 0 THEN intro_question(state, response)
  ELSE topic_question(state, response)

\* The conversation context of the prompt _generate_question sends to the
\* model (None for the introductory question, whose prompt has none).
prompt_context(state) ==
  IF wants_followup(state)
  THEN Some([mode  |-> "topic",
             topic |-> state.current_topic,
             text  |-> topic_context(state.messages, state.current_topic)])
  ELSE IF state.questions_asked = 0 THEN None
  ELSE Some([mode  |-> "full",
             topic |-> topic_question(state, EmptyText).current_topic,
             text  |-> build_conversation_context(state.messages)])

\* Whether _process_answer reaches its model call.
process_answer_calls_model(state) ==
  /\ state.messages # <<>>
  /\ state.messages[Len(state.messages)].role = "user"

\* process_answer testing the response as it came, not lowercased.
process_answer_case_sensitive(state, response) ==
  IF ~process_answer_calls_model(state)
  THEN [state EXCEPT !.needs_followup = FALSE]
  ELSE [state EXCEPT !.needs_followup = contains(response, <<"y", "e", "s">>)]

process_answer(state, response) ==
  IF ~process_answer_calls_model(state)
  THEN [state EXCEPT !.needs_followup = FALSE]
  ELSE [state EXCEPT !.needs_followup = contains(lower(response), <<"y", "e", "s">>)]

check_time(state, current_time) ==
  [state EXCEPT !.time_elapsed = current_time - state.start_time]

\* should_continue_or_end with the question gate off by one (> for >=).
should_continue_or_end_strict(state) ==
  IF state.time_elapsed >= MAX_INTERVIEW_TIME_SECONDS THEN "conclude"
  ELSE IF state.questions_asked > MAX_QUESTIONS THEN "conclude"
  ELSE "wait_for_answer"

\* should_continue_or_end sending an answer that waits in the history on to
\* the sufficiency check.
should_continue_or_end_eager(state) ==
  IF state.time_elapsed >= MAX_INTERVIEW_TIME_SECONDS THEN "conclude"
  ELSE IF state.questions_asked >= MAX_QUESTIONS THEN "conclude"
  ELSE IF /\ Len(state.messages) >= 3
          /\ state.messages[Len(state.messages) - 2].role = "user"
       THEN "process_answer"
  ELSE "wait_for_answer"

should_continue_or_end(state) ==
  IF state.time_elapsed >= MAX_INTERVIEW_TIME_SECONDS THEN "conclude"
  ELSE IF state.questions_asked >= MAX_QUESTIONS THEN "conclude"
  ELSE "wait_for_answer"

route_after_answer(state) ==
  IF state.time_elapsed >= MAX_INTERVIEW_TIME_SECONDS THEN "conclude"
  ELSE IF state.questions_asked >= MAX_QUESTIONS THEN "conclude"
  ELSE IF state.is_concluded THEN "conclude"
  ELSE "generate_question"

\* conclusion_reason_of with the two gates tested in the other order.
conclusion_reason_questions_first(state) ==
  IF state.questions_asked >= MAX_QUESTIONS THEN Some("max_questions")
  ELSE IF state.time_elapsed >= MAX_INTERVIEW_TIME_SECONDS THEN Some("time_limit")
  ELSE state.conclusion_reason

\* conclusion_reason_of reading the reason from the state alone.
conclusion_reason_unset(state) == state.conclusion_reason

\* The reason _conclude_interview settles on.  Both handlers put the key
\* conclusion_reason in the state they build (with value None), so
\* state.get("conclusion_reason", "completed") reads that value back.
conclusion_reason_of(state) ==
  IF state.time_elapsed >= MAX_INTERVIEW_TIME_SECONDS THEN Some("time_limit")
  ELSE IF state.questions_asked >= MAX_QUESTIONS THEN Some("max_questions")
  ELSE state.conclusion_reason

\* The conclusion template of a reason, with the question count it quotes.
conclusion_message(reason, questions_asked) ==
  IF reason \in {Some("time_limit"), Some("max_questions")}
  THEN <<"Thank you", reason[1], ToString(questions_asked)>>
  ELSE <<"Thank you", "in touch">>

\* conclude_interview leaving the generated question as the current question.
conclude_interview_keeping_question(state) ==
  LET reason == conclusion_reason_of(state)
      text   == conclusion_message(reason, state.questions_asked)
  IN  [state EXCEPT
         !.is_concluded = TRUE,
         !.conclusion_reason = reason,
         !.messages = Append(@, Msg("assistant", text, EmptyText))]

conclude_interview(state) ==
  LET reason == conclusion_reason_of(state)
      text   == conclusion_message(reason, state.questions_asked)
  IN  [state EXCEPT
         !.is_concluded = TRUE,
         !.conclusion_reason = reason,
         !.current_question = text,
         !.messages = Append(@, Msg("assistant", text, EmptyText))]

---------------------------------------------------------------------------
(* One run of the compiled graph (_build_graph, invoke).  `env` is what    *)
(* the outside does during the run: the model's answers, the node whose    *)
(* model call raises (if any), and the clock when check_time reads it.     *)

CallsModel(node, state) ==
  \/ node \in {"analyze_documents", "generate_question"}
  \/ node = "process_answer" /\ process_answer_calls_model(state)

RECURSIVE run_from(_, _, _, _)
run_from(node, state, env, trace) ==
  LET visited == Append(trace, node)
  IN  IF CallsModel(node, state) /\ env.fail = node
      THEN [ok |-> FALSE, state |-> state, trace |-> visited]
      ELSE CASE node = "analyze_documents" ->
                  run_from("generate_question",
                           analyze_documents(state, env.strategy), env, visited)
             [] node = "generate_question" ->
                  run_from("check_time",
                           generate_question(state, env.question), env, visited)
             [] node = "check_time" ->
                  LET checked == check_time(state, env.current_time)
                      route   == should_continue_or_end(checked)
                  IN  IF route = "wait_for_answer"
                      THEN [ok |-> TRUE, state |-> checked, trace |-> visited]
                      ELSE IF route = "process_answer"
                      THEN run_from("process_answer", checked, env, visited)
                      ELSE run_from("conclude_interview", checked, env, visited)
             [] node = "process_answer" ->
                  LET processed == process_answer(state, env.verdict)
                  IN  IF route_after_answer(processed) = "generate_question"
                      THEN run_from("generate_question", processed, env, visited)
                      ELSE run_from("conclude_interview", processed, env, visited)
             [] node = "conclude_interview" ->
                  [ok |-> TRUE, state |-> conclude_interview(state),
                   trace |-> visited]

\* graph.invoke(initial_state): every run enters at START -> analyze_documents.
invoke(initial_state, env) == run_from("analyze_documents", initial_state, env, <<>>)

---------------------------------------------------------------------------
(* The session registry and the handlers (main.py, models.py) *)

\* SessionData(session_id=..., resume_text=..., job_description_text=...)
SessionData(session_id) ==
  [session_id           |-> session_id,
   resume_text          |-> <<"r", "e", "s", "u", "m", "e">>,
   job_description_text |-> <<"j", "o", "b">>,
   conversation_history |-> <<>>,
   interview_strategy   |-> None,
   key_topics           |-> <<>>,
   questions_asked      |-> 0,
   topic_followup_counts |-> EmptyDict,
   start_time           |-> None,
   is_active            |-> TRUE,
   is_concluded         |-> FALSE,
   conclusion_reason    |-> None]

\* Message(role=..., content=...)
Message(role, content) == [role |-> role, content |-> content]

\* `if text:` for an Optional[str]
Truthy(text) == text # EmptyText /\ text # NoneText

\* The state start_interview builds for the graph.
start_state(session, current_time) ==
  [session_id            |-> session.session_id,
   resume_text           |-> session.resume_text,
   job_description_text  |-> session.job_description_text,
   messages              |-> <<>>,
   interview_strategy    |-> EmptyText,
   key_topics            |-> <<>>,
   questions_asked       |-> 0,
   current_question      |-> NoneText,
   current_topic         |-> NoneText,
   needs_followup        |-> FALSE,
   topic_followup_counts |-> EmptyDict,
   start_time            |-> current_time,
   time_elapsed          |-> 0,
   is_concluded          |-> FALSE,
   conclusion_reason     |-> None]

\* The state submit_answer builds: the history is copied without topic labels.
answer_state(session, time_elapsed) ==
  [session_id            |-> session.session_id,
   resume_text           |-> session.resume_text,
   job_description_text  |-> session.job_description_text,
   messages              |-> [i \in 1..Len(session.conversation_history) |->
                                Msg(session.conversation_history[i].role,
                                    session.conversation_history[i].content,
                                    EmptyText)],
   interview_strategy    |-> IF session.interview_strategy = None
                             THEN EmptyText
                             ELSE session.interview_strategy[1],
   key_topics            |-> session.key_topics,
   questions_asked       |-> session.questions_asked,
   current_question      |-> NoneText,
   current_topic         |-> NoneText,
   needs_followup        |-> FALSE,
   topic_followup_counts |-> session.topic_followup_counts,
   start_time            |-> session.start_time[1],
   time_elapsed          |-> time_elapsed,
   is_concluded          |-> FALSE,
   conclusion_reason     |-> None]

\* What the outside can do during one run that ends with the clock at current_time.
\* Either every model call answers, or the call of one node raises.
Envs(current_time) ==
  [fail         : {"none"},
   strategy     : StrategyTexts,
   question     : QuestionTexts,
   verdict      : VerdictTexts,
   current_time : {current_time}]
  \cup
  [fail         : {"analyze_documents", "generate_question", "process_answer"},
   strategy     : {StrategyProse},
   question     : {QuestionText},
   verdict      : {NoText},
   current_time : {current_time}]

\* A run that used up one of the behaviour's faulty model calls.
IsFault(run, env) == ~run.ok \/ strip(env.question) = EmptyText

\* The bound on faulty model calls.
FaultAllowed(session) ==
  faults < MaxFaults /\ Len(session.conversation_history) < MaxFaultTurns

\* Max without the comparison: the second argument as it is.
Max_unclamped(a, b) == b

Max(a, b) == IF a >= b THEN a ELSE b

\* What a handler found in the session when the request came in.
EntryOf(session, time_elapsed) ==
  [questions_asked |-> session.questions_asked,
   turns           |-> Len(session.conversation_history),
   time_elapsed    |-> time_elapsed]

NoEntry == [questions_asked |-> 0, turns |-> 0, time_elapsed |-> 0]

NoResponse ==
  [op |-> "none", sid |-> "none", status |-> "none", text |-> NoneText,
   is_concluded |-> FALSE, conclusion_reason |-> None, questions_asked |-> 0,
   time_elapsed |-> None, time_remaining |-> None, time_checked |-> None,
   trace |-> <<>>, produced |-> <<>>, entry |-> NoEntry, topic |-> NoneText,
   verdict |-> NoneText]

Rejected(op, sid, status) ==
  [NoResponse EXCEPT !.op = op, !.sid = sid, !.status = status]

\* The messages a run appended to the state it was given.
Produced(initial_state, run) ==
  SubSeq(run.state.messages, Len(initial_state.messages) + 1,
         Len(run.state.messages))

Untouched ==
  UNCHANGED <<st, nodeIn, lastNode, tasks, draft, extracted, context, reply>>

\* store_session with one transcript list shared by every session object.
store_session_sharing_history(sid, session) ==
  [s \in DOMAIN sessions |->
     IF s = sid THEN session
     ELSE [sessions[s] EXCEPT
             !.conversation_history = session.conversation_history]]

\* The registry once a handler has written the fields of the session object
\* it looked up: `session = sessions[request.session_id]` and the
\* assignments to `session.<field>` that follow.
store_session(sid, session) == [sessions EXCEPT ![sid] = session]

\* upload_documents with an id that may already be in use.
upload_documents_reusing_id(sid) ==
  /\ sessions' = [s \in DOMAIN sessions \cup {sid} |->
                    IF s = sid THEN SessionData(sid) ELSE sessions[s]]
  /\ resp' = [NoResponse EXCEPT !.op = "upload", !.sid = sid, !.status = "ok"]
  /\ UNCHANGED <<now, faults>>
  /\ Untouched

\* upload_documents, once both texts are extracted: a new session under a new id.
upload_documents(sid) ==
  /\ sid \notin DOMAIN sessions
  /\ sessions' = [s \in DOMAIN sessions \cup {sid} |->
                    IF s = sid THEN SessionData(sid) ELSE sessions[s]]
  /\ resp' = [NoResponse EXCEPT !.op = "upload", !.sid = sid, !.status = "ok"]
  /\ UNCHANGED <<now, faults>>
  /\ Untouched

\* start_interview without its already-started check.
already_started_unchecked(session) == FALSE

\* `if session.start_time is not None` of start_interview
already_started(session) == session.start_time # None

\* start_interview, lines 248-261: the two rejections.
start_rejected(sid) ==
  /\ \/ /\ sid \notin DOMAIN sessions
        /\ resp' = Rejected("start", sid, "not_found")
     \/ /\ sid \in DOMAIN sessions
        /\ already_started(sessions[sid])
        /\ resp' = Rejected("start", sid, "already_started")
  /\ UNCHANGED <<sessions, now, faults>>
  /\ Untouched

\* The session after start_interview's try block, given the graph's run.
started_session(session, start_instant, run) ==
  LET stamped == [session EXCEPT !.start_time = Some(start_instant)]
      first_question == run.state.current_question
  IN  IF ~run.ok THEN stamped
      ELSE [stamped EXCEPT
              !.interview_strategy = Some(run.state.interview_strategy),
              !.key_topics = run.state.key_topics,
              !.questions_asked = run.state.questions_asked,
              !.conversation_history =
                 IF Truthy(first_question)
                 THEN Append(@, Message("assistant", first_question))
                 ELSE @]

\* start_interview, lines 263-317.
start_accepted(sid) ==
  /\ sid \in DOMAIN sessions
  /\ ~already_started(sessions[sid])
  /\ \E delay \in PassDelays : \E env \in Envs(now + delay) :
     \E initial_state \in {start_state(sessions[sid], now)} :
     \E run \in {invoke(initial_state, env)} :
       /\ now + delay <= MaxClock
       /\ IsFault(run, env) => FaultAllowed(sessions[sid])
       /\ faults' = IF IsFault(run, env) THEN faults + 1 ELSE faults
       /\ now' = now + delay
       /\ sessions' = store_session(sid, started_session(sessions[sid], now, run))
       /\ resp' = [NoResponse EXCEPT
                     !.op = "start", !.sid = sid,
                     !.status = IF run.ok THEN "ok" ELSE "failed",
                     !.text = IF run.ok THEN run.state.current_question
                              ELSE NoneText,
                     !.trace = run.trace,
                     !.time_checked = IF run.ok THEN Some(run.state.time_elapsed)
                                      ELSE None,
                     !.topic = IF run.ok THEN run.state.current_topic
                               ELSE NoneText,
                     !.produced = IF run.ok THEN Produced(initial_state, run)
                                  ELSE <<>>,
                     !.entry = EntryOf(sessions[sid], 0)]
  /\ Untouched

start_interview(sid) == start_rejected(sid) \/ start_accepted(sid)

\* `if session.start_time is None` of submit_answer
not_started(session) == session.start_time = None

\* submit_answer without its already-concluded check.
already_concluded_unchecked(session) == FALSE

\* `if session.is_concluded` of submit_answer
already_concluded(session) == session.is_concluded

\* submit_answer, lines 432-453: the three rejections.
submit_rejected(sid) ==
  /\ \/ /\ sid \notin DOMAIN sessions
        /\ resp' = Rejected("submit", sid, "not_found")
     \/ /\ sid \in DOMAIN sessions
        /\ not_started(sessions[sid])
        /\ resp' = Rejected("submit", sid, "not_started")
     \/ /\ sid \in DOMAIN sessions
        /\ ~not_started(sessions[sid])
        /\ already_concluded(sessions[sid])
        /\ resp' = Rejected("submit", sid, "already_concluded")
  /\ UNCHANGED <<sessions, now, faults>>
  /\ Untouched

\* The session once submit_answer has appended the answer (lines 456-460).
answered_session(session, answer) ==
  [session EXCEPT !.conversation_history = Append(@, Message("user", answer))]

\* submitted_session leaving the session open when the run concluded.
submitted_session_keeping_open(answered, run) ==
  LET next_question == run.state.current_question
  IN  IF ~run.ok THEN answered
      ELSE [answered EXCEPT
              !.questions_asked = run.state.questions_asked,
              !.topic_followup_counts = run.state.topic_followup_counts,
              !.conversation_history =
                 IF Truthy(next_question)
                 THEN Append(@, Message("assistant", next_question))
                 ELSE @]

\* The session after submit_answer's try block, given the graph's run.
submitted_session(answered, run) ==
  LET next_question == run.state.current_question
  IN  IF ~run.ok THEN answered
      ELSE [answered EXCEPT
              !.questions_asked = run.state.questions_asked,
              !.topic_followup_counts = run.state.topic_followup_counts,
              !.is_concluded = run.state.is_concluded,
              !.conclusion_reason = run.state.conclusion_reason,
              !.conversation_history =
                 IF Truthy(next_question)
                 THEN Append(@, Message("assistant", next_question))
                 ELSE @]

\* submit_answer, lines 455-529.
submit_accepted(sid) ==
  /\ sid \in DOMAIN sessions
  /\ ~not_started(sessions[sid])
  /\ ~already_concluded(sessions[sid])
  /\ \E answer \in AnswerTexts : \E delay \in PassDelays :
     \E env \in Envs(now + delay) :
     \E answered \in {answered_session(sessions[sid], answer)} :
     \E time_elapsed \in {now - answered.start_time[1]} :
     \E current_state \in {answer_state(answered, time_elapsed)} :
     \E run \in {invoke(current_state, env)} :
     \E after \in {submitted_session(answered, run)} :
       /\ now + delay <= MaxClock
       /\ IsFault(run, env) => FaultAllowed(sessions[sid])
       /\ faults' = IF IsFault(run, env) THEN faults + 1 ELSE faults
       /\ now' = now + delay
       /\ sessions' = store_session(sid, after)
       /\ resp' =
            IF ~run.ok
            THEN [NoResponse EXCEPT
                    !.op = "submit", !.sid = sid, !.status = "failed",
                    !.trace = run.trace,
                    !.entry = EntryOf(sessions[sid], time_elapsed)]
            ELSE [NoResponse EXCEPT
                    !.op = "submit", !.sid = sid, !.status = "ok",
                    !.text = run.state.current_question,
                    !.is_concluded = after.is_concluded,
                    !.conclusion_reason = after.conclusion_reason,
                    !.questions_asked = after.questions_asked,
                    !.time_elapsed = Some(time_elapsed),
                    !.time_remaining =
                       Some(Max(0, MAX_INTERVIEW_TIME_SECONDS - time_elapsed)),
                    !.time_checked = Some(run.state.time_elapsed),
                    !.trace = run.trace,
                    !.topic = run.state.current_topic,
                    !.verdict = env.verdict,
                    !.produced = Produced(current_state, run),
                    !.entry = EntryOf(sessions[sid], time_elapsed)]
  /\ Untouched

submit_answer(sid) == submit_rejected(sid) \/ submit_accepted(sid)

\* get_interview_status refreshing is_active from is_concluded as it reports.
get_interview_status_refreshing(sid) ==
  /\ sid \in DOMAIN sessions
  /\ resp' = [NoResponse EXCEPT
                !.op = "status", !.sid = sid, !.status = "ok",
                !.is_concluded = sessions[sid].is_concluded,
                !.questions_asked = sessions[sid].questions_asked,
                !.conclusion_reason = sessions[sid].conclusion_reason]
  /\ sessions' = [sessions EXCEPT ![sid].is_active = ~sessions[sid].is_concluded]
  /\ UNCHANGED <<now, faults>>
  /\ Untouched

\* get_interview_status
get_interview_status(sid) ==
  /\ \/ /\ sid \notin DOMAIN sessions
        /\ resp' = Rejected("status", sid, "not_found")
     \/ /\ sid \in DOMAIN sessions
        /\ LET session == sessions[sid]
               elapsed == IF session.start_time = None THEN None
                          ELSE Some(now - session.start_time[1])
           IN  resp' = [NoResponse EXCEPT
                          !.op = "status", !.sid = sid, !.status = "ok",
                          !.is_concluded = session.is_concluded,
                          !.questions_asked = session.questions_asked,
                          !.conclusion_reason = session.conclusion_reason,
                          !.time_elapsed = elapsed,
                          !.time_remaining =
                             IF elapsed = None THEN None
                             ELSE Some(Max(0, MAX_INTERVIEW_TIME_SECONDS
                                              - elapsed[1]))]
  /\ UNCHANGED <<sessions, now, faults>>
  /\ Untouched

\* Time passes between two requests.
Tick ==
  /\ \E d \in TickDeltas : now + d <= MaxClock /\ now' = now + d
  /\ resp' = NoResponse
  /\ UNCHANGED <<sessions, faults>>
  /\ Untouched

---------------------------------------------------------------------------
(* The nodes applied one at a time to an InterviewState, in any order: a   *)
(* superset of every path a wiring of the graph can take through them.     *)

FrozenSessions ==
  UNCHANGED <<sessions, now, resp, faults, tasks, draft, extracted>>

\* A node applied to st; `response` is what the model answered to the
\* node's sufficiency prompt, if the node sent one.
ApplyWith(node, after, response) ==
  /\ st' = after
  /\ nodeIn' = st
  /\ lastNode' = node
  /\ context' = IF node = "generate_question" THEN prompt_context(st) ELSE None
  /\ reply' = response
  /\ FrozenSessions

Apply(node, after) == ApplyWith(node, after, None)

\* Within a pass no node runs after conclude_interview, and the handlers
\* refuse a concluded session, so every node is applied to an open state.
NodeAnalyze ==
  /\ ~st.is_concluded
  /\ st.interview_strategy = EmptyText
  /\ \E strategy \in StrategyTexts :
       Apply("analyze_documents", analyze_documents(st, strategy))

\* The candidate's answer, appended to the history as submit_answer appends it.
NodeAnswer ==
  /\ ~st.is_concluded
  /\ st.messages # <<>>
  /\ st.messages[Len(st.messages)].role = "assistant"
  /\ \E answer \in AnswerTexts :
       Apply("answer",
             [st EXCEPT !.messages = Append(@, Msg("user", answer, EmptyText))])

\* What the model may answer to the sufficiency prompt.
NodeVerdictTexts ==
  VerdictTexts
  \cup {<<"Y", "E", "S">>, <<"e", "y", "e", "s">>, <<"y", "e", " ", "s">>,
        EmptyText}

NodeProcessAnswer ==
  /\ ~st.is_concluded
  /\ \E verdict \in NodeVerdictTexts :
       ApplyWith("process_answer", process_answer(st, verdict),
                 IF process_answer_calls_model(st) THEN Some(verdict) ELSE None)

NodeGenerateQuestion ==
  /\ ~st.is_concluded
  /\ st.questions_asked < MaxNodeQuestions
  /\ Apply("generate_question", generate_question(st, QuestionText))

NodeCheckTime ==
  /\ ~st.is_concluded
  /\ \E elapsed \in {0, MAX_INTERVIEW_TIME_SECONDS} :
       /\ elapsed >= st.time_elapsed
       /\ Apply("check_time", check_time(st, st.start_time + elapsed))

NodeConclude ==
  /\ ~st.is_concluded
  /\ Apply("conclude_interview", conclude_interview(st))

---------------------------------------------------------------------------
(* The handlers as coroutines of the one event loop that uvicorn.run       *)
(* starts.  A start_interview or submit_answer coroutine passes through    *)
(* three positions: "entered" (checks passed, start instant stamped or     *)
(* answer appended, graph state built), "invoked" (the graph has returned) *)
(* and back to "idle" (result written to the session).  The loop runs      *)
(* another coroutine only where the running one awaits.                    *)

TaskIds == 1..MaxTasks

IdleTask ==
  [op |-> "none", sid |-> "none", pc |-> "idle",
   state |-> start_state(SessionData("s1"), 0),
   result |-> start_state(SessionData("s1"), 0)]

\* A coroutine between its first and its last access to the session.
InFlight(task) == task.pc \in {"entered", "invoked"}

\* A handler that awaited its graph run (as `await graph.ainvoke(...)` would).
awaits_at_invoke(op, pc) == pc = "entered"

\* Whether a handler's body awaits at a position: neither start_interview
\* nor submit_answer has an await; graph.invoke is a blocking call.
awaits_at(op, pc) == FALSE

\* The loop may run coroutine t: no other coroutine is inside its body,
\* except suspended at an await.
MayRun(t) ==
  \A u \in TaskIds \ {t} :
    InFlight(tasks[u]) => awaits_at(tasks[u].op, tasks[u].pc)

LoopUnchanged ==
  UNCHANGED <<now, resp, faults, st, nodeIn, lastNode, draft, extracted,
              context, reply>>

\* A request is received and a coroutine is created for it.
Request(t) ==
  /\ tasks[t].pc = "idle"
  /\ \E op \in {"start", "submit"} : \E sid \in SessionIds :
       /\ ( op = "submit" /\ sid \in DOMAIN sessions )
          => Len(sessions[sid].conversation_history) < MaxLoopTurns
       /\ tasks' = [tasks EXCEPT ![t] =
                      [IdleTask EXCEPT !.op = op, !.sid = sid, !.pc = "pending"]]
  /\ UNCHANGED sessions
  /\ LoopUnchanged

\* The coroutine's checks refuse the request (main.py 248-261, 432-453).
Refuse(t) ==
  /\ tasks[t].pc = "pending"
  /\ MayRun(t)
  /\ LET sid == tasks[t].sid
     IN  \/ sid \notin DOMAIN sessions
         \/ /\ sid \in DOMAIN sessions
            /\ IF tasks[t].op = "start"
               THEN already_started(sessions[sid])
               ELSE \/ not_started(sessions[sid])
                    \/ already_concluded(sessions[sid])
  /\ tasks' = [tasks EXCEPT ![t] = IdleTask]
  /\ UNCHANGED sessions
  /\ LoopUnchanged

\* start_interview up to its graph call (main.py 263-284).
EnterStart(t) ==
  /\ tasks[t].pc = "pending"
  /\ tasks[t].op = "start"
  /\ MayRun(t)
  /\ tasks[t].sid \in DOMAIN sessions
  /\ ~already_started(sessions[tasks[t].sid])
  /\ LET sid == tasks[t].sid
     IN  /\ sessions' = [sessions EXCEPT ![sid].start_time = Some(now)]
         /\ tasks' = [tasks EXCEPT
                        ![t].pc = "entered",
                        ![t].state = start_state(sessions[sid], now)]
  /\ LoopUnchanged

\* submit_answer up to its graph call (main.py 455-489).
EnterSubmit(t) ==
  /\ tasks[t].pc = "pending"
  /\ tasks[t].op = "submit"
  /\ MayRun(t)
  /\ tasks[t].sid \in DOMAIN sessions
  /\ ~not_started(sessions[tasks[t].sid])
  /\ ~already_concluded(sessions[tasks[t].sid])
  /\ \E answer \in AnswerTexts :
     \E answered \in {answered_session(sessions[tasks[t].sid], answer)} :
       /\ sessions' = [sessions EXCEPT ![tasks[t].sid] = answered]
       /\ tasks' = [tasks EXCEPT
                      ![t].pc = "entered",
                      ![t].state =
                         answer_state(answered, now - answered.start_time[1])]
  /\ LoopUnchanged

\* The graph call of either handler (main.py 287, 492), every model call
\* answering.
RunGraph(t) ==
  /\ tasks[t].pc = "entered"
  /\ MayRun(t)
  /\ \E strategy \in StrategyTexts :
     \E run \in {invoke(tasks[t].state,
                         [fail |-> "none", strategy |-> strategy,
                          question |-> QuestionText, verdict |-> NoText,
                          current_time |-> now])} :
       tasks' = [tasks EXCEPT ![t].pc = "invoked", ![t].result = run.state]
  /\ UNCHANGED sessions
  /\ LoopUnchanged

\* The writes after the graph call (main.py 290-310, 494-529).
Commit(t) ==
  /\ tasks[t].pc = "invoked"
  /\ MayRun(t)
  /\ LET sid == tasks[t].sid
         run == [ok |-> TRUE, state |-> tasks[t].result, trace |-> <<>>]
     IN  sessions' =
           [sessions EXCEPT ![sid] =
              IF tasks[t].op = "start"
              THEN started_session(@, @.start_time[1], run)
              ELSE submitted_session(@, run)]
  /\ tasks' = [tasks EXCEPT ![t] = IdleTask]
  /\ LoopUnchanged

---------------------------------------------------------------------------
(* The topic extractor applied to strategy texts written line by line. *)

FrozenService ==
  UNCHANGED <<sessions, now, resp, faults, st, nodeIn, lastNode, tasks,
              context, reply>>

\* One more line of strategy text.
WriteLine ==
  /\ Len(draft) < MaxDraftLines
  /\ \E line \in DraftLines : draft' = Append(draft, line)
  /\ extracted' = None
  /\ FrozenService

\* topics = self._extract_topics(strategy)
ExtractTopics ==
  /\ extracted = None
  /\ extracted' = Some(extract_topics(join_lines(draft)))
  /\ UNCHANGED draft
  /\ FrozenService

---------------------------------------------------------------------------
(* The two context builders applied to message lists written turn by turn. *)

\* Turns a message list may be made of: dicts as the nodes and submit_answer
\* write them, and message objects; with and without a topic label, with
\* and without content.
HistoryTurns ==
  {Msg("system", StrategyProse, EmptyText),
   Msg("assistant", <<"Q", "1">>, TopicIntroduction),
   Msg("assistant", <<"Q", "2">>, TopicTechnical),
   Msg("assistant", EmptyText, TopicTechnical),
   Msg("user", <<"A", "1">>, EmptyText),
   Msg("user", <<"A", "2">>, TopicTechnical),
   [type |-> "AIMessage", content |-> <<"Q", "3">>],
   [type |-> "HumanMessage", content |-> <<"A", "3">>,
    topic |-> TopicTechnical],
   [type |-> "SystemMessage", content |-> StrategyProse]}

\* The topics a topic-scoped context may be asked for.
ContextTopics == {TopicIntroduction, TopicTechnical, NoneText}

FrozenState == UNCHANGED <<nodeIn, lastNode, reply>> /\ FrozenSessions

\* One more turn in the message list.
AddTurn ==
  /\ Len(st.messages) < MaxHistory
  /\ \E msg \in HistoryTurns : st' = [st EXCEPT !.messages = Append(@, msg)]
  /\ context' = None
  /\ FrozenState

\* conversation_context = self._build_conversation_context(messages)
BuildContext ==
  /\ context = None
  /\ context' = Some([mode  |-> "full",
                      topic |-> NoneText,
                      text  |-> build_conversation_context(st.messages)])
  /\ UNCHANGED st
  /\ FrozenState

\* The topic_context of a follow-up on some topic.
BuildTopicContext ==
  /\ context = None
  /\ \E current_topic \in ContextTopics :
       context' = Some([mode  |-> "topic",
                        topic |-> current_topic,
                        text  |-> topic_context(st.messages, current_topic)])
  /\ UNCHANGED st
  /\ FrozenState

---------------------------------------------------------------------------
(* Specifications *)

Init ==
  /\ sessions = EmptyDict
  /\ now = 0
  /\ resp = NoResponse
  /\ faults = 0
  /\ st = start_state(SessionData("s1"), 0)
  /\ nodeIn = start_state(SessionData("s1"), 0)
  /\ lastNode = "none"
  /\ tasks = [t \in TaskIds |-> IdleTask]
  /\ draft = <<>>
  /\ extracted = None
  /\ context = None
  /\ reply = None

Next ==
  \/ \E sid \in SessionIds : upload_documents(sid)
  \/ \E sid \in SessionIds : start_interview(sid)
  \/ \E sid \in SessionIds : submit_answer(sid)
  \/ \E sid \in SessionIds : get_interview_status(sid)
  \/ Tick

\* The service: requests arrive one at a time (every handler runs to its
\* return without yielding the event loop) and time passes between them.
Spec == Init /\ [][Next]_vars

\* A SubmitAnswer call that was accepted and whose model calls all
\* succeeded has just returned.
SubmitSucceeds(sid) ==
  resp'.op = "submit" /\ resp'.sid = sid /\ resp'.status = "ok"

\* submit_answer accepts a call for the session (main.py 438-453).
AcceptsAnswer(sid) ==
  /\ sid \in DOMAIN sessions
  /\ ~not_started(sessions[sid])
  /\ ~already_concluded(sessions[sid])

\* The service with a candidate who keeps answering and model calls that
\* succeed: weak fairness of the successful SubmitAnswer, which is enabled
\* exactly while submit_answer accepts a call for the session.
LiveSpec ==
  /\ Spec
  /\ \A sid \in SessionIds :
       []<>(~AcceptsAnswer(sid)) \/ []<><<SubmitSucceeds(sid)>>_vars

NodeNext ==
  \/ NodeAnalyze
  \/ NodeAnswer
  \/ NodeProcessAnswer
  \/ NodeGenerateQuestion
  \/ NodeCheckTime
  \/ NodeConclude

\* The workflow's nodes as functions of the state.
NodeSpec == Init /\ [][NodeNext]_vars

\* The length of a session's transcript in a registry (0 if it has none).
TurnsOf(registry, sid) ==
  IF sid \in DOMAIN registry
  THEN Len(registry[sid].conversation_history)
  ELSE 0

\* Time passes between the calls only and stops at the time limit, and
\* transcripts stay short.
PairBound ==
  /\ now' <= MAX_INTERVIEW_TIME_SECONDS
  /\ resp'.op # "none" => now' = now
  /\ TurnsOf(sessions', "s1") + TurnsOf(sessions', "s2") <= MaxPairTurns

PairNext ==
  \/ \E sid \in PairIds : upload_documents(sid) /\ PairBound
  \/ \E sid \in PairIds : start_interview(sid) /\ PairBound
  \/ \E sid \in PairIds : submit_answer(sid) /\ PairBound
  \/ \E sid \in PairIds : get_interview_status(sid) /\ PairBound
  \/ Tick /\ PairBound

\* The service with two sessions side by side.
PairSpec == Init /\ [][PairNext]_vars

ExtractNext ==
  \/ WriteLine
  \/ ExtractTopics

\* The topic extractor on every text of up to MaxDraftLines lines.
ExtractSpec == Init /\ [][ExtractNext]_vars

ContextNext ==
  \/ AddTurn
  \/ BuildContext
  \/ BuildTopicContext

\* The context builders on every message list of up to MaxHistory turns.
ContextSpec == Init /\ [][ContextNext]_vars

LoopNext ==
  \/ \E sid \in SessionIds : upload_documents(sid)
  \/ \E t \in TaskIds : Request(t)
  \/ \E t \in TaskIds : Refuse(t)
  \/ \E t \in TaskIds : EnterStart(t)
  \/ \E t \in TaskIds : EnterSubmit(t)
  \/ \E t \in TaskIds : RunGraph(t)
  \/ \E t \in TaskIds : Commit(t)
  \/ Tick

\* The service with requests arriving at any time and the event loop
\* scheduling their coroutines.
LoopSpec == Init /\ [][LoopNext]_vars

---------------------------------------------------------------------------
(* Properties *)

\* The session a response is about, as it is after the call.
Answered == sessions[resp.sid]

SubmitOk == resp.op = "submit" /\ resp.status = "ok"

\* A question turn carries a topic label; the conclusion turn carries none.
IsQuestionTurn(m) == m.role = "assistant" /\ m.topic # EmptyText

IsConclusionText(text) == text # EmptyText /\ Head(text) = "Thank you"

\* The interviewer's question turns of a transcript, the conclusion excluded.
QuestionTurns(history) ==
  {i \in 1..Len(history) :
     history[i].role = "assistant" /\ ~IsConclusionText(history[i].content)}

\* C1: over every step of the service (a call that succeeds, is rejected or
\* fails, or a tick) no session's questions_asked decreases.
C1_QuestionsAskedNeverDecreases ==
  [][\A sid \in DOMAIN sessions :
       /\ sid \in DOMAIN sessions'
       /\ sessions'[sid].questions_asked >= sessions[sid].questions_asked]_vars

\* C1 witness: an accepted SubmitAnswer raised the counter of a session that
\* had already been asked two questions.
C1_Witness ==
  /\ SubmitOk
  /\ resp.entry.questions_asked >= 2
  /\ Answered.questions_asked = resp.entry.questions_asked + 1

\* C2: over every step of the service a session that is concluded stays
\* concluded.
C2_ConcludedStaysConcluded ==
  [][\A sid \in DOMAIN sessions :
       sessions[sid].is_concluded =>
         sid \in DOMAIN sessions' /\ sessions'[sid].is_concluded]_vars

\* C2 witness: a SubmitAnswer arrived for a concluded session and the
\* session is still concluded.
C2_Witness ==
  /\ resp.op = "submit"
  /\ resp.status = "already_concluded"
  /\ Answered.is_concluded

\* C3: whatever nodes are applied to an InterviewState, in whatever order and
\* with whatever sufficiency results, every topic's follow-up count is at
\* most 2.
C3_FollowupCountsBounded ==
  \A t \in DOMAIN st.topic_followup_counts :
    st.topic_followup_counts[t] <= MAX_FOLLOWUPS

\* C3 witness: question generation was entered with needs_followup set and
\* the current topic's count already 2, and left the counts as they were.
C3_Witness ==
  /\ lastNode = "generate_question"
  /\ nodeIn.needs_followup
  /\ Get(nodeIn.topic_followup_counts, nodeIn.current_topic, 0) = MAX_FOLLOWUPS
  /\ st.topic_followup_counts = nodeIn.topic_followup_counts
  /\ st.questions_asked = nodeIn.questions_asked + 1

\* C4: an accepted SubmitAnswer that finds a gate crossed (elapsed >= 1800 s
\* or questions_asked >= 16) concludes without generating a question turn
\* and without incrementing questions_asked.
C4_GateCrossedConcludesWithoutQuestion ==
  ( /\ SubmitOk
    /\ \/ resp.entry.time_elapsed >= MAX_INTERVIEW_TIME_SECONDS
       \/ resp.entry.questions_asked >= MAX_QUESTIONS )
  => /\ resp.is_concluded
     /\ \A i \in 1..Len(resp.produced) : ~IsQuestionTurn(resp.produced[i])
     /\ Answered.questions_asked = resp.entry.questions_asked

\* C5: a SubmitAnswer pass that concludes gives reason time_limit whenever
\* elapsed time is >= 1800 s, and max_questions only when elapsed time is
\* below 1800 s and questions_asked >= 16; a SubmitAnswer made at elapsed
\* >= 1800 s returns a conclusion with reason time_limit and is_concluded.
C5_TimeGateTakesPrecedence ==
  SubmitOk =>
    /\ ( resp.is_concluded
         /\ resp.time_checked[1] >= MAX_INTERVIEW_TIME_SECONDS )
       => resp.conclusion_reason = Some("time_limit")
    /\ ( resp.is_concluded /\ resp.conclusion_reason = Some("max_questions") )
       => /\ resp.time_checked[1] < MAX_INTERVIEW_TIME_SECONDS
          /\ resp.entry.time_elapsed < MAX_INTERVIEW_TIME_SECONDS
          /\ resp.questions_asked >= MAX_QUESTIONS
    /\ resp.entry.time_elapsed >= MAX_INTERVIEW_TIME_SECONDS
       => /\ resp.is_concluded
          /\ resp.conclusion_reason = Some("time_limit")
          /\ IsConclusionText(resp.text)
          /\ Answered.is_concluded
          /\ Answered.conclusion_reason = Some("time_limit")

\* C5 witness: a pass concluded with both gates crossed (the 16th question
\* counted, elapsed time >= 1800 s) and gave reason time_limit.
C5_Witness ==
  /\ SubmitOk
  /\ resp.is_concluded
  /\ resp.questions_asked >= MAX_QUESTIONS
  /\ resp.entry.time_elapsed >= MAX_INTERVIEW_TIME_SECONDS
  /\ resp.conclusion_reason = Some("time_limit")

\* C6: the SubmitAnswer pass that brings questions_asked to 16 while elapsed
\* time is below 1800 s concludes the interview with reason max_questions.
C6_SixteenthQuestionConcludes ==
  ( /\ SubmitOk
    /\ Answered.questions_asked = MAX_QUESTIONS
    /\ resp.time_checked[1] < MAX_INTERVIEW_TIME_SECONDS )
  => /\ resp.is_concluded
     /\ IsConclusionText(resp.text)
     /\ Answered.is_concluded
     /\ Answered.conclusion_reason = Some("max_questions")

\* C6 witness: with no model call ever failing or coming back blank, the
\* pass entered with 15 questions asked concluded for max_questions before
\* the time limit.
C6_Witness ==
  /\ SubmitOk
  /\ faults = 0
  /\ resp.entry.questions_asked = MAX_QUESTIONS - 1
  /\ Answered.questions_asked = MAX_QUESTIONS
  /\ resp.time_checked[1] < MAX_INTERVIEW_TIME_SECONDS
  /\ Answered.conclusion_reason = Some("max_questions")

\* C7: in every state, a session's questions_asked equals the number of
\* interviewer question turns in its transcript (the conclusion excluded).
C7_CounterEqualsQuestionTurns ==
  \A sid \in DOMAIN sessions :
    sessions[sid].questions_asked =
      Cardinality(QuestionTurns(sessions[sid].conversation_history))

\* C8: a StartInterview for a session whose start instant is set is answered
\* with the already-started error and changes no session; and no step
\* changes a start instant that is set.
C8_SecondStartRejected ==
  /\ [][\A sid \in DOMAIN sessions :
          ( resp'.op = "start" /\ resp'.sid = sid
            /\ sessions[sid].start_time # None )
          => resp'.status = "already_started" /\ sessions' = sessions]_vars
  /\ [][\A sid \in DOMAIN sessions :
          sessions[sid].start_time # None
          => /\ sid \in DOMAIN sessions'
             /\ sessions'[sid].start_time = sessions[sid].start_time]_vars

\* C8 witness: a StartInterview was rejected as already started, on a
\* session that had gone on to its second question.
C8_Witness ==
  /\ resp.op = "start"
  /\ resp.status = "already_started"
  /\ Answered.questions_asked >= 2

\* C9: a SubmitAnswer for a session that is not started, or is concluded, is
\* answered with an error, changes no session and runs no node of the graph
\* (so makes no model call).
C9_SubmitRejectedLeavesSession ==
  [][\A sid \in DOMAIN sessions :
       ( resp'.op = "submit" /\ resp'.sid = sid
         /\ (sessions[sid].start_time = None \/ sessions[sid].is_concluded) )
       => /\ resp'.status \in {"not_started", "already_concluded"}
          /\ resp'.status = "not_started" <=> sessions[sid].start_time = None
          /\ resp'.trace = <<>>
          /\ sessions' = sessions]_vars

\* C9 witness: a SubmitAnswer was rejected on a concluded session whose
\* transcript still ends with the conclusion turn.
C9_Witness ==
  /\ resp.op = "submit"
  /\ resp.status = "already_concluded"
  /\ LET history == Answered.conversation_history
     IN  IsConclusionText(history[Len(history)].content)

\* C10: a StartInterview or SubmitAnswer call in which a model call fails
\* leaves every session as it was before the call.
C10_FailedCallLeavesSession ==
  [][resp'.status = "failed" => sessions' = sessions]_vars

\* The last turn of a transcript is the conclusion message.
EndsWithConclusion(history) ==
  history # <<>> /\ IsConclusionText(history[Len(history)].content)

\* C11: the transcript of a concluded session ends with the conclusion
\* message, and no step of the service (StartInterview, SubmitAnswer,
\* GetStatus, accepted or refused, or a tick) changes that transcript.
C11_ConcludedTranscriptFrozen ==
  [][\A sid \in DOMAIN sessions :
       sessions[sid].is_concluded =>
         /\ EndsWithConclusion(sessions[sid].conversation_history)
         /\ sid \in DOMAIN sessions'
         /\ sessions'[sid].conversation_history =
              sessions[sid].conversation_history]_vars

\* C11 witness: a StartInterview arrived for a concluded session, was
\* refused, and the transcript still ends with the conclusion message.
C11_Witness ==
  /\ resp.op = "start"
  /\ resp.status = "already_started"
  /\ Answered.is_concluded
  /\ EndsWithConclusion(Answered.conversation_history)

StartOk == resp.op = "start" /\ resp.status = "ok"

\* C12: after an accepted StartInterview the first question carries the
\* topic label "introduction", questions_asked is 1, the session is not
\* concluded, and the pass ended at the gate check waiting for an answer,
\* the question it generated being the text returned.
C12_FirstQuestionIsIntroduction ==
  StartOk =>
    /\ resp.topic = TopicIntroduction
    /\ Answered.questions_asked = 1
    /\ ~Answered.is_concluded
    /\ resp.trace = <<"analyze_documents", "generate_question", "check_time">>
    /\ LET last == resp.produced[Len(resp.produced)]
       IN  /\ IsQuestionTurn(last)
           /\ last.topic = TopicIntroduction
           /\ last.content = resp.text

\* What `'yes' in response.content.lower()` makes of a sufficiency verdict.
VerdictIsYes(verdict) == contains(lower(verdict), <<"y", "e", "s">>)

\* The last call returned a question (not a conclusion) to the candidate.
ReturnedQuestion(r) ==
  /\ r.op \in {"start", "submit"}
  /\ r.status = "ok"
  /\ ~r.is_concluded
  /\ r.text # EmptyText
  /\ ~IsConclusionText(r.text)

\* C13: when the answer to the question just returned is submitted, the
\* sufficiency verdict is "no" and the pass crosses no gate, the question
\* the pass returns is on a topic other than that of the question answered.
C13_TopicAdvancesOnNo ==
  [][( /\ ReturnedQuestion(resp)
       /\ ReturnedQuestion(resp')
       /\ resp'.op = "submit"
       /\ resp'.sid = resp.sid
       /\ ~VerdictIsYes(resp'.verdict) )
     => resp'.topic # resp.topic]_vars

\* C14: when the answer to the question just returned is submitted, the
\* sufficiency verdict is "yes" and the pass crosses no gate, the pass asks
\* a follow-up on the same topic while fewer than 2 follow-ups were asked on
\* it, and a question on another topic once 2 were: three "yes" answers in
\* a row give exactly two follow-ups and then a change of topic.
C14_ThreeYesAnswersTwoFollowups ==
  [][\A sid \in DOMAIN sessions :
       ( /\ ReturnedQuestion(resp)
         /\ ReturnedQuestion(resp')
         /\ resp'.op = "submit"
         /\ resp.sid = sid
         /\ resp'.sid = sid
         /\ VerdictIsYes(resp'.verdict) )
       => LET asked == Get(sessions[sid].topic_followup_counts, resp.topic, 0)
          IN  IF asked < MAX_FOLLOWUPS
              THEN /\ resp'.topic = resp.topic
                   /\ Get(sessions'[sid].topic_followup_counts,
                          resp.topic, 0) = asked + 1
              ELSE resp'.topic # resp.topic]_vars

\* C15: at most one StartInterview/SubmitAnswer pass per session is between
\* its first and last access to the session; while a pass is in flight the
\* session stays as the pass read it (nobody else writes it); and the pass's
\* commit counts exactly one question and appends exactly one turn on top
\* of what it read, so no update is lost or duplicated.
C15_OnePassInFlight ==
  /\ [](\A t \in TaskIds : InFlight(tasks[t]) =>
         /\ \A u \in TaskIds \ {t} :
              InFlight(tasks[u]) => tasks[u].sid # tasks[t].sid
         /\ sessions[tasks[t].sid].questions_asked =
              tasks[t].state.questions_asked
         /\ Len(sessions[tasks[t].sid].conversation_history) =
              Len(tasks[t].state.messages)
         /\ ~sessions[tasks[t].sid].is_concluded)
  /\ [][\A t \in TaskIds :
          ( tasks[t].pc = "invoked" /\ tasks'[t].pc = "idle" )
          => /\ sessions'[tasks[t].sid].questions_asked =
                  tasks[t].state.questions_asked + 1
             /\ Len(sessions'[tasks[t].sid].conversation_history) =
                  Len(tasks[t].state.messages) + 1]_vars

\* C15 witness: a SubmitAnswer request for a session is waiting to run while
\* another SubmitAnswer pass for the same session is in flight, its graph
\* run back and not yet committed.
C15_Witness ==
  \E t, u \in TaskIds :
    /\ tasks[t].pc = "pending"
    /\ tasks[t].op = "submit"
    /\ tasks[u].pc = "invoked"
    /\ tasks[u].op = "submit"
    /\ tasks[u].sid = tasks[t].sid
    /\ tasks[u].state.questions_asked >= 1

\* C16: a StartInterview, SubmitAnswer or GetStatus call for one session id
\* (accepted, refused or failed) leaves every field of every other session
\* as it was, its topic_followup_counts included.
C16_OtherSessionsUnchanged ==
  [][\A a \in PairIds :
       ( resp'.op \in {"start", "submit", "status"} /\ resp'.sid = a )
       => \A b \in DOMAIN sessions \ {a} :
            b \in DOMAIN sessions' /\ sessions'[b] = sessions[b]]_vars

\* C16 witness: a SubmitAnswer was accepted for s1, which has been asked its
\* second question, while s2 is an interview under way with a different
\* transcript.
C16_Witness ==
  /\ SubmitOk
  /\ resp.sid = "s1"
  /\ "s2" \in DOMAIN sessions
  /\ sessions["s1"].questions_asked >= 2
  /\ sessions["s2"].questions_asked = 1
  /\ sessions["s2"].conversation_history # <<>>
  /\ sessions["s2"].conversation_history
       # sessions["s1"].conversation_history

\* C17: a GetStatus call changes no session, runs no node of the graph (so
\* makes no model call), and reports the session's is_concluded,
\* questions_asked and conclusion reason as they are.
C17_StatusIsReadOnly ==
  [][resp'.op = "status" =>
       /\ sessions' = sessions
       /\ faults' = faults
       /\ resp'.trace = <<>>
       /\ resp'.sid \in DOMAIN sessions =>
            /\ resp'.status = "ok"
            /\ resp'.is_concluded = sessions[resp'.sid].is_concluded
            /\ resp'.questions_asked = sessions[resp'.sid].questions_asked
            /\ resp'.conclusion_reason
                 = sessions[resp'.sid].conclusion_reason]_vars

\* C17 witness: GetStatus reported a concluded session, with its reason and
\* its count of questions.
C17_Witness ==
  /\ resp.op = "status"
  /\ resp.status = "ok"
  /\ Answered.is_concluded
  /\ resp.is_concluded
  /\ resp.conclusion_reason = Answered.conclusion_reason
  /\ resp.conclusion_reason # None
  /\ resp.questions_asked = Answered.questions_asked
  /\ resp.questions_asked >= 2

ConclusionReasons == {"time_limit", "max_questions", "completed"}

\* C18: in every state a session is concluded if and only if its
\* conclusion_reason is set, a reason that is set is time_limit,
\* max_questions or completed, and no step changes a reason that is set.
C18_ReasonIffConcluded ==
  /\ [](\A sid \in DOMAIN sessions :
         /\ sessions[sid].is_concluded <=> sessions[sid].conclusion_reason # None
         /\ sessions[sid].conclusion_reason # None
              => sessions[sid].conclusion_reason[1] \in ConclusionReasons)
  /\ [][\A sid \in DOMAIN sessions :
          sessions[sid].conclusion_reason # None
          => /\ sid \in DOMAIN sessions'
             /\ sessions'[sid].conclusion_reason
                  = sessions[sid].conclusion_reason]_vars

\* C18 witness: a session concluded for max_questions has since been sent
\* another SubmitAnswer, past the time limit, and kept its reason.
C18_Witness ==
  /\ resp.op = "submit"
  /\ resp.status = "already_concluded"
  /\ Answered.conclusion_reason = Some("max_questions")
  /\ now - Answered.start_time[1] >= MAX_INTERVIEW_TIME_SECONDS

\* An enumerated line ("3. ...", "12. ...") or a bulleted one ("- ...",
\* "* ..."), leading whitespace aside.
IsListLine(line) ==
  LET text == strip(line)
      rest == lstrip(text, Digits)
  IN  /\ text # EmptyText
      /\ \/ Head(text) \in {"-", "*"}
         \/ rest # text /\ rest # EmptyText /\ Head(rest) = "."

\* C19: the extractor applied to a strategy text none of whose lines is
\* enumerated or bulleted returns exactly "Technical skills", "Experience
\* and background", "Problem-solving approach", in that order.
C19_NoListLinesGiveDefaults ==
  ( /\ extracted # None
    /\ \A i \in 1..Len(draft) : ~IsListLine(draft[i]) )
  => extracted[1] = <<TopicTechnical, TopicExperience, TopicProblemSolving>>

\* C19 witness: the extractor ran on a text of three lines of prose, one of
\* them starting with a digit, and returned the three default topics.
C19_Witness ==
  /\ extracted # None
  /\ Len(draft) = 3
  /\ draft[2] = LineProseDigit
  /\ \A i \in 1..Len(draft) : ~IsListLine(draft[i])
  /\ extracted[1] = <<TopicTechnical, TopicExperience, TopicProblemSolving>>

\* A line without its leading list markers and surrounding whitespace.
TopicOfLine(line) == strip(lstrip(strip(line), TopicMarkers))

RECURSIVE InOrderOf(_, _)
\* The entries are topics of some of the lines, in the lines' order.
InOrderOf(entries, text_lines) ==
  IF entries = <<>> THEN TRUE
  ELSE IF text_lines = <<>> THEN FALSE
  ELSE IF Head(entries) = TopicOfLine(Head(text_lines))
       THEN InOrderOf(Tail(entries), Tail(text_lines))
       ELSE InOrderOf(entries, Tail(text_lines))

\* C20: for every strategy text the topic list has between 1 and 5 entries,
\* and unless it is the default list its entries are topics of lines of the
\* text, in the order of those lines.
C20_TopicListOneToFiveInOrder ==
  extracted # None =>
    /\ Len(extracted[1]) >= 1
    /\ Len(extracted[1]) <= 5
    /\ extracted[1] # <<TopicTechnical, TopicExperience, TopicProblemSolving>>
         => InOrderOf(extracted[1], draft)

\* C20 witness: a text of six lines that all carry a topic, bulleted and
\* numbered ones mixed, gave five topics, the first line's topic first.
C20_Witness ==
  /\ extracted # None
  /\ Len(draft) = 6
  /\ \A i \in 1..Len(draft) : draft[i] \in {LineNumbered, LineBulleted}
  /\ draft[1] = LineBulleted
  /\ draft[2] = LineNumbered
  /\ Len(extracted[1]) = 5
  /\ extracted[1][1] = TopicOfLine(LineBulleted)
  /\ extracted[1][2] = TopicOfLine(LineNumbered)

\* An interviewer or candidate turn: a dict with role assistant or user, or
\* an AIMessage or HumanMessage object.
IsSpokenTurn(msg) ==
  IF "type" \in DOMAIN msg
  THEN msg.type \in {"AIMessage", "HumanMessage"}
  ELSE msg.role \in {"assistant", "user"}

\* C21: a context builder never returns the empty string; on a message list
\* that is empty or holds no interviewer or candidate turn, full-history
\* mode returns "This is the first question." and topic-scoped mode returns
\* "First question on this topic".
C21_ContextNeverEmpty ==
  context # None =>
    /\ context[1].text # EmptyText
    /\ ( \A i \in 1..Len(st.messages) : ~IsSpokenTurn(st.messages[i]) )
       => /\ context[1].mode = "full"
               => context[1].text = <<"This is the first question.">>
          /\ context[1].mode = "topic"
               => context[1].text = <<"First question on this topic">>

\* C21 witness: the full-history context of a message list that holds the
\* strategy note alone is the placeholder.
C21_Witness ==
  /\ context # None
  /\ context[1].mode = "full"
  /\ st.messages = <<Msg("system", StrategyProse, EmptyText)>>
  /\ context[1].text = <<"This is the first question.">>

\* How many times a node was run in a pass.
Occurrences(trace, node) == Cardinality({i \in 1..Len(trace) : trace[i] = node})

\* C22: an accepted SubmitAnswer pass runs the sufficiency check
\* (process_answer) exactly once, after the answer is appended and before
\* any question is generated in the pass.
C22_SubmitRunsSufficiencyCheckOnce ==
  SubmitOk =>
    /\ Occurrences(resp.trace, "process_answer") = 1
    /\ \A i, j \in 1..Len(resp.trace) :
         ( resp.trace[i] = "process_answer"
           /\ resp.trace[j] = "generate_question" ) => i < j

\* The last call ran the graph (to its end or up to a failed model call).
RanGraph == resp.op \in {"start", "submit"} /\ resp.trace # <<>>

\* C23: in every graph run the gate check is followed by the end of the
\* pass or by conclude_interview, never by process_answer; a pass generates
\* at most one question, and a pass that succeeds ends at the gate check or
\* at the conclusion.
C23_GateNeverRoutesToProcessAnswer ==
  RanGraph =>
    /\ Occurrences(resp.trace, "process_answer") = 0
    /\ \A i \in 1..Len(resp.trace) :
         resp.trace[i] = "check_time"
         => \/ i = Len(resp.trace)
            \/ /\ i + 1 = Len(resp.trace)
               /\ resp.trace[i + 1] = "conclude_interview"
    /\ Occurrences(resp.trace, "generate_question") <= 1
    /\ resp.status = "ok"
         => /\ Occurrences(resp.trace, "generate_question") = 1
            /\ resp.trace[Len(resp.trace)]
                 \in {"check_time", "conclude_interview"}
            /\ resp.is_concluded
                 => resp.trace[Len(resp.trace)] = "conclude_interview"

\* C23 witness: a SubmitAnswer pass with an answer waiting in the history
\* generated its question, checked the gates and ended there, the
\* interview open at its third question or later.
C23_Witness ==
  /\ SubmitOk
  /\ ~resp.is_concluded
  /\ resp.entry.questions_asked >= 2
  /\ resp.trace[Len(resp.trace)] = "check_time"
  /\ Answered.questions_asked = resp.entry.questions_asked + 1

\* The entries of a list.
Range(list) == {list[i] : i \in 1..Len(list)}

\* C24: no accepted SubmitAnswer pass runs the strategy analysis, and the
\* topic of the question it returns is the entry of the topic list stored
\* on the session at StartInterview that the rotation points at.
C24_StrategyAnalysedOnlyAtStart ==
  SubmitOk =>
    /\ Occurrences(resp.trace, "analyze_documents") = 0
    /\ ReturnedQuestion(resp)
         => LET topics == Answered.key_topics
            IN  resp.topic =
                  topics[((resp.entry.questions_asked - 1) % Len(topics)) + 1]

\* C25: the topic of every question turn a StartInterview or SubmitAnswer
\* pass produces is "introduction" or a member of the topic list stored on
\* the session.
C25_TopicFromSessionList ==
  ( StartOk \/ SubmitOk ) =>
    \A i \in 1..Len(resp.produced) :
      IsQuestionTurn(resp.produced[i])
      => resp.produced[i].topic
           \in {TopicIntroduction} \cup Range(Answered.key_topics)

\* Question generation ran last, on a state that asked for a follow-up on a
\* topic with follow-ups left.
FollowupDue ==
  /\ lastNode = "generate_question"
  /\ nodeIn.needs_followup
  /\ Get(nodeIn.topic_followup_counts, nodeIn.current_topic, 0) < MAX_FOLLOWUPS

\* C26: question generation on a state with needs_followup set and the
\* current topic's follow-up count below 2 keeps current_topic, adds 1 to
\* that topic's count and leaves every other count, adds 1 to
\* questions_asked, clears needs_followup, and appends one question turn
\* tagged with current_topic.
C26_FollowupKeepsTopic ==
  FollowupDue =>
    LET topic  == nodeIn.current_topic
        before == nodeIn.topic_followup_counts
        after  == st.topic_followup_counts
    IN  /\ st.current_topic = topic
        /\ DOMAIN after = DOMAIN before \cup {topic}
        /\ after[topic] = (IF topic \in DOMAIN before THEN before[topic] ELSE 0) + 1
        /\ \A other \in DOMAIN after \ {topic} : after[other] = before[other]
        /\ st.questions_asked = nodeIn.questions_asked + 1
        /\ ~st.needs_followup
        /\ Len(st.messages) = Len(nodeIn.messages) + 1
        /\ SubSeq(st.messages, 1, Len(nodeIn.messages)) = nodeIn.messages
        /\ st.messages[Len(st.messages)].role = "assistant"
        /\ st.messages[Len(st.messages)].topic = topic
        /\ st.messages[Len(st.messages)].content = st.current_question

\* C26 witness: a first follow-up on a topic of the list was generated
\* after the introduction had had its two.
C26_Witness ==
  /\ FollowupDue
  /\ nodeIn.current_topic # TopicIntroduction
  /\ Get(nodeIn.topic_followup_counts, TopicIntroduction, 0) = MAX_FOLLOWUPS
  /\ Get(st.topic_followup_counts, TopicIntroduction, 0) = MAX_FOLLOWUPS
  /\ Get(st.topic_followup_counts, nodeIn.current_topic, 0) = 1

\* C27: question generation that does not produce a follow-up picks, when
\* questions_asked >= 1, the topic at index (questions_asked - 1) mod the
\* length of the topic list, questions_asked taken before the increment
\* ("general background" on an empty list), and the topic "introduction"
\* when questions_asked is 0; the follow-up counts stay as they were.
C27_RotationByQuestionsAsked ==
  ( lastNode = "generate_question" /\ ~FollowupDue ) =>
    /\ st.topic_followup_counts = nodeIn.topic_followup_counts
    /\ st.current_topic =
         IF nodeIn.questions_asked = 0 THEN TopicIntroduction
         ELSE IF nodeIn.key_topics = <<>> THEN TopicGeneralBackground
         ELSE nodeIn.key_topics[((nodeIn.questions_asked - 1)
                                   % Len(nodeIn.key_topics)) + 1]
    /\ st.messages[Len(st.messages)].topic = st.current_topic
    /\ st.questions_asked = nodeIn.questions_asked + 1

\* C27 witness: with three topics and four questions asked, a follow-up
\* being wanted but the topic's two already asked, the rotation wrapped
\* around to the first topic.
C27_Witness ==
  /\ lastNode = "generate_question"
  /\ nodeIn.needs_followup
  /\ ~FollowupDue
  /\ nodeIn.questions_asked = 4
  /\ Len(nodeIn.key_topics) = 3
  /\ st.current_topic = nodeIn.key_topics[1]
  /\ st.questions_asked = 5

\* C28: in a StartInterview or SubmitAnswer pass that succeeds, the gates
\* are checked after the question is generated, the question counted: with
\* elapsed time >= 1800 s or questions_asked >= 16 the pass returns the
\* conclusion message and the session is concluded; otherwise it returns
\* the question it generated and the session stays open.
C28_GatesRecheckedAfterQuestion ==
  ( StartOk \/ SubmitOk ) =>
    LET last == resp.produced[Len(resp.produced)]
    IN  IF \/ resp.time_checked[1] >= MAX_INTERVIEW_TIME_SECONDS
           \/ Answered.questions_asked >= MAX_QUESTIONS
        THEN /\ IsConclusionText(resp.text)
             /\ Answered.is_concluded
        ELSE /\ IsQuestionTurn(last)
             /\ resp.text = last.content
             /\ ~Answered.is_concluded

\* The same for the SubmitAnswer passes alone.
SubmitGatesRecheckedAfterQuestion == SubmitOk => C28_GatesRecheckedAfterQuestion

\* C29: the context of a follow-up prompt holds the interviewer and
\* candidate turns on current_topic, in order: when the follow-up comes
\* after a question on current_topic and the answer to it, the context ends
\* with the line of that question followed by the line of that answer.
C29_FollowupContextHasQuestionAndAnswer ==
  ( /\ FollowupDue
    /\ context # None
    /\ context[1].mode = "topic"
    /\ Len(nodeIn.messages) >= 2
    /\ nodeIn.messages[Len(nodeIn.messages) - 1].role = "assistant"
    /\ nodeIn.messages[Len(nodeIn.messages) - 1].topic = nodeIn.current_topic
    /\ nodeIn.messages[Len(nodeIn.messages)].role = "user" )
  => LET question == nodeIn.messages[Len(nodeIn.messages) - 1].content
         answer   == nodeIn.messages[Len(nodeIn.messages)].content
         ending   == <<"Interviewer: ">> \o question \o <<NL>>
                       \o <<"Candidate: ">> \o answer
         text     == context[1].text
     IN  /\ Len(text) >= Len(ending)
         /\ SubSeq(text, Len(text) - Len(ending) + 1, Len(text)) = ending

\* The follow-up context holds no candidate turn at all.
FollowupContextWithoutAnswers ==
  ( FollowupDue /\ context # None )
  => ~contains(context[1].text, <<"Candidate: ">>)

\* The topic-scoped context has one line for each interviewer or candidate
\* turn labelled with the topic, and none for any other turn.
ScopedContextOnlyLabelledTurns ==
  ( context # None /\ context[1].mode = "topic" ) =>
    LET labelled == {i \in 1..Len(st.messages) :
                       /\ IsSpokenTurn(st.messages[i])
                       /\ "topic" \in DOMAIN st.messages[i]
                       /\ st.messages[i].topic = context[1].topic}
    IN  IF labelled = {}
        THEN context[1].text = <<"First question on this topic">>
        ELSE Occurrences(context[1].text, NL) = Cardinality(labelled) - 1

\* A line that starts, leading whitespace aside, with "1." to "5.", "-" or
\* "*".
StartsAsListItem(line) ==
  LET text == strip(line)
  IN  /\ text # EmptyText
      /\ \/ Head(text) \in {"-", "*"}
         \/ /\ Len(text) >= 2
            /\ text[1] \in {"1", "2", "3", "4", "5"}
            /\ text[2] = "."

RECURSIVE TopicsOf(_, _)
\* The topics of the lines that are more than 10 characters long once their
\* leading markers are stripped; with listed_only, of those among them that
\* start as a list item.
TopicsOf(text_lines, listed_only) ==
  IF text_lines = <<>> THEN <<>>
  ELSE ( IF /\ Len(TopicOfLine(Head(text_lines))) > 10
            /\ listed_only => StartsAsListItem(Head(text_lines))
         THEN <<TopicOfLine(Head(text_lines))>>
         ELSE <<>> )
       \o TopicsOf(Tail(text_lines), listed_only)

\* The first five entries of a list, or the three default topics if it has
\* none.
FirstFiveOrDefaults(topics) ==
  IF topics = <<>>
  THEN <<TopicTechnical, TopicExperience, TopicProblemSolving>>
  ELSE SubSeq(topics, 1, IF Len(topics) < 5 THEN Len(topics) ELSE 5)

\* C30 as stated: the topic list is made of the first 5 lines of the text
\* whose length, leading markers stripped, exceeds 10 characters (the
\* default topics if there is none).
C30_TopicIffLongEnough ==
  extracted # None =>
    extracted[1] = FirstFiveOrDefaults(TopicsOf(draft, FALSE))

\* C30 amended: the topic list is made of the first 5 lines of the text that
\* start with "1." to "5.", "-" or "*" and whose length, leading markers
\* stripped, exceeds 10 characters (the default topics if there is none).
C30_TopicIffListItemLongEnough ==
  extracted # None =>
    extracted[1] = FirstFiveOrDefaults(TopicsOf(draft, TRUE))

\* C30 witness: of a prose line, a line numbered 6 and a line numbered 1,
\* all long enough, the extractor took the last alone.
C30_Witness ==
  /\ extracted # None
  /\ draft = <<LineProse, LineSixth, LineNumbered>>
  /\ extracted[1] = <<TopicOfLine(LineNumbered)>>

\* The letters "yes" stand somewhere in a text, in upper or lower case.
SaysYes(text) ==
  \E i \in 1..(Len(text) - 2) :
    /\ text[i] \in {"y", "Y"}
    /\ text[i + 1] \in {"e", "E"}
    /\ text[i + 2] \in {"s", "S"}

\* C31: the sufficiency check leaves needs_followup true exactly when the
\* history ends with a candidate turn and the model's response, lowercased,
\* contains "yes"; on an empty history or a last turn that is not the
\* candidate's it asks the model nothing and leaves needs_followup false.
C31_FollowupIffYes ==
  lastNode = "process_answer" =>
    IF nodeIn.messages # <<>>
       /\ nodeIn.messages[Len(nodeIn.messages)].role = "user"
    THEN /\ reply # None
         /\ st.needs_followup <=> SaysYes(reply[1])
    ELSE /\ reply = None
         /\ ~st.needs_followup

\* C31 witness: the model answered "YES" on a candidate's answer, in a
\* state whose needs_followup was false, and needs_followup is true.
C31_Witness ==
  /\ lastNode = "process_answer"
  /\ reply = Some(<<"Y", "E", "S">>)
  /\ nodeIn.messages[Len(nodeIn.messages)].role = "user"
  /\ ~nodeIn.needs_followup
  /\ st.needs_followup

\* C32: in every state, every session's questions_asked is between 0 and 16.
C32_QuestionsWithinBudget ==
  \A sid \in DOMAIN sessions :
    /\ sessions[sid].questions_asked >= 0
    /\ sessions[sid].questions_asked <= MAX_QUESTIONS

\* C32 witness: a session that went through a failed or blank model call
\* stands at 16 questions, and a further SubmitAnswer was refused.
C32_Witness ==
  /\ resp.op = "submit"
  /\ resp.status = "already_concluded"
  /\ faults >= 1
  /\ Answered.questions_asked = MAX_QUESTIONS

\* C33: a successful StartInterview leaves questions_asked at 1, every
\* successful SubmitAnswer adds exactly 1 to it, and a session with 16
\* questions is concluded, so at most 15 successful SubmitAnswer calls
\* follow a successful start; and with a candidate who keeps answering, a
\* session once started successfully is eventually concluded.
C33_ConcludesWithinFifteenSubmits ==
  /\ [][\A sid \in DOMAIN sessions :
          ( resp'.op = "start" /\ resp'.sid = sid /\ resp'.status = "ok" )
          => sessions'[sid].questions_asked = 1]_vars
  /\ [][\A sid \in DOMAIN sessions :
          ( resp'.op = "submit" /\ resp'.sid = sid /\ resp'.status = "ok" )
          => sessions'[sid].questions_asked
               = sessions[sid].questions_asked + 1]_vars
  /\ [](\A sid \in DOMAIN sessions :
          sessions[sid].questions_asked >= MAX_QUESTIONS
          => sessions[sid].is_concluded)
  /\ \A sid \in SessionIds :
       ( StartOk /\ resp.sid = sid )
       ~> ( sid \in DOMAIN sessions /\ sessions[sid].is_concluded )

\* The candidate's turns of a transcript.
CandidateTurns(history) == {i \in 1..Len(history) : history[i].role = "user"}

\* C33 witness: with no model call failing or coming back blank and the
\* time limit not reached, the fifteenth SubmitAnswer after the start
\* concluded the interview.
C33_Witness ==
  /\ SubmitOk
  /\ faults = 0
  /\ resp.is_concluded
  /\ resp.time_checked[1] < MAX_INTERVIEW_TIME_SECONDS
  /\ Cardinality(CandidateTurns(Answered.conversation_history))
       = MAX_QUESTIONS - 1

\* C34: in every state every transcript alternates, starting with an
\* interviewer turn: the odd turns are the interviewer's and the even turns
\* the candidate's.
C34_TranscriptAlternates ==
  \A sid \in DOMAIN sessions :
    LET history == sessions[sid].conversation_history
    IN  \A i \in 1..Len(history) :
          history[i].role = IF i % 2 = 1 THEN "assistant" ELSE "user"

\* The same over the behaviours in which no model call fails or comes back
\* blank.
AlternatesWithoutFaults == faults = 0 => C34_TranscriptAlternates

\* C35: after every run of question generation needs_followup is false.
C35_FlagClearedByGeneration ==
  lastNode = "generate_question" => ~st.needs_followup

\* The flag survives question generation only on the path where a follow-up
\* was wanted and the current topic's two had been asked.
FlagKeptOnlyWhenBudgetExhausted ==
  ( lastNode = "generate_question" /\ st.needs_followup )
  => /\ nodeIn.needs_followup
     /\ Get(nodeIn.topic_followup_counts, nodeIn.current_topic, 0)
          >= MAX_FOLLOWUPS

\* C36: the remaining time a successful SubmitAnswer or GetStatus reports
\* is 1800 - elapsed, or 0 once elapsed >= 1800, with elapsed counted from
\* the session's start instant (for SubmitAnswer, up to the arrival of the
\* call); it lies between 0 and 1800; and GetStatus on a session that is
\* not started reports elapsed and remaining as absent.
C36_TimeRemainingClamped ==
  ( resp.op \in {"submit", "status"} /\ resp.status = "ok" ) =>
    IF Answered.start_time = None
    THEN resp.time_elapsed = None /\ resp.time_remaining = None
    ELSE /\ resp.time_elapsed # None
         /\ resp.time_remaining # None
         /\ resp.op = "status"
              => resp.time_elapsed[1] = now - Answered.start_time[1]
         /\ resp.op = "submit"
              => /\ resp.time_elapsed[1] >= 0
                 /\ resp.time_elapsed[1] <= now - Answered.start_time[1]
                 /\ resp.time_elapsed[1] = resp.entry.time_elapsed
         /\ resp.time_remaining[1] =
              IF resp.time_elapsed[1] >= 1800 THEN 0
              ELSE 1800 - resp.time_elapsed[1]
         /\ resp.time_remaining[1] >= 0
         /\ resp.time_remaining[1] <= 1800

\* C36 witness: GetStatus on a session started more than 1800 s ago
\* reported 0 s remaining.
C36_Witness ==
  /\ resp.op = "status"
  /\ resp.status = "ok"
  /\ resp.time_elapsed # None
  /\ resp.time_elapsed[1] > MAX_INTERVIEW_TIME_SECONDS
  /\ resp.time_remaining = Some(0)

====
